---------------------------- MODULE Spec2Model ----------------------------
(***************************************************************************)
(* Model of the Locci Scheduler request handler (src/api/handler.rs):      *)
(* query parsing, body interpretation, the greeting / default-SMS /        *)
(* custom-SMS paths, and the response envelope.                            *)
(*                                                                         *)
(* Rust Strings and byte slices are sequences of bytes (0..255).           *)
(* Option<T> is a sequence of length 0 (None) or 1 (Some(x)).              *)
(* A HashMap<String, String> is a function from keys to values.            *)
(***************************************************************************)
EXTENDS Integers, Sequences, FiniteSets, TLC

VARIABLES
    env,        \* process environment: which provider secrets are set
    serving,    \* main has reached run(api::handler)
    inbox,      \* slot -> the request the platform hands to that invocation
    task,       \* slot -> the locals of that invocation of handler
    query_in,   \* argument of a direct call of parse_query_params
    params_out  \* Option of the mapping that call returned

vars == <<env, serving, inbox, task, query_in, params_out>>

None == <<>>
Some(x) == <<x>>
IsSome(o) == o /= <<>>
IsNone(o) == o = <<>>
Unwrap(o) == o[1]

-----------------------------------------------------------------------------
(* Bounds of the model. *)

\* Longest query string enumerated exhaustively for parse_query_params.
MaxQueryLen == 4
\* Number of distinct values uuid::Uuid::new_v4() can draw.
NumTraceIds == 2

-----------------------------------------------------------------------------
(* Bytes and strings. *)

\* The byte of an ASCII character.
Ord(c) ==
    CASE c = "a" -> 97  [] c = "b" -> 98  [] c = "c" -> 99
      [] c = "=" -> 61  [] c = "&" -> 38  [] c = "%" -> 37
      [] c = "4" -> 52  [] c = "1" -> 49  [] c = "F" -> 70
      [] c = "C" -> 67  [] c = "3" -> 51  [] c = "9" -> 57
      [] c = "A" -> 65  [] c = "+" -> 43

\* The bytes of a string literal given as a tuple of characters.
Bytes(cs) == [i \in 1..Len(cs) |-> Ord(cs[i])]

\* str::split('&'): the pieces between separators; always at least one piece.
RECURSIVE SplitFrom(_, _, _, _)
SplitFrom(s, sep, i, cur) ==
    IF i > Len(s) THEN <<cur>>
    ELSE IF s[i] = sep THEN <<cur>> \o SplitFrom(s, sep, i + 1, <<>>)
    ELSE SplitFrom(s, sep, i + 1, Append(cur, s[i]))

Split(s, sep) == SplitFrom(s, sep, 1, <<>>)

\* Index of the first occurrence of sep in s, 0 when there is none.
RECURSIVE FindFrom(_, _, _)
FindFrom(s, sep, i) ==
    IF i > Len(s) THEN 0
    ELSE IF s[i] = sep THEN i
    ELSE FindFrom(s, sep, i + 1)

\* str::split_once('='): None without a separator, else (before, after) the
\* first one.
SplitOnce(s, sep) ==
    LET i == FindFrom(s, sep, 1) IN
    IF i = 0 THEN None
    ELSE Some(<<SubSeq(s, 1, i - 1), SubSeq(s, i + 1, Len(s))>>)

\* urlencoding's from_hex_digit: the value of a hex digit, -1 otherwise.
HexVal(b) ==
    IF b >= 48 /\ b <= 57 THEN b - 48
    ELSE IF b >= 65 /\ b <= 70 THEN b - 55
    ELSE IF b >= 97 /\ b <= 102 THEN b - 87
    ELSE -1

\* urlencoding::decode_binary: %XY with two hex digits becomes one byte; a
\* '%' not followed by two hex digits is kept literally.
RECURSIVE DecodeBinary(_, _)
DecodeBinary(s, i) ==
    IF i > Len(s) THEN <<>>
    ELSE IF s[i] = Ord("%") /\ i + 2 <= Len(s)
            /\ HexVal(s[i + 1]) >= 0 /\ HexVal(s[i + 2]) >= 0
    THEN <<HexVal(s[i + 1]) * 16 + HexVal(s[i + 2])>> \o DecodeBinary(s, i + 3)
    ELSE <<s[i]>> \o DecodeBinary(s, i + 1)

IsCont(b) == b >= 128 /\ b <= 191

\* String::from_utf8's validity check (RFC 3629 well-formed sequences).
RECURSIVE Utf8Valid(_, _)
Utf8Valid(bs, i) ==
    IF i > Len(bs) THEN TRUE
    ELSE LET b == bs[i]
             n == Len(bs) IN
         IF b <= 127 THEN Utf8Valid(bs, i + 1)
         ELSE IF b >= 194 /\ b <= 223
         THEN i + 1 <= n /\ IsCont(bs[i + 1]) /\ Utf8Valid(bs, i + 2)
         ELSE IF b >= 224 /\ b <= 239
         THEN /\ i + 2 <= n
              /\ IsCont(bs[i + 1]) /\ IsCont(bs[i + 2])
              /\ (b = 224 => bs[i + 1] >= 160)
              /\ (b = 237 => bs[i + 1] <= 159)
              /\ Utf8Valid(bs, i + 3)
         ELSE IF b >= 240 /\ b <= 244
         THEN /\ i + 3 <= n
              /\ IsCont(bs[i + 1]) /\ IsCont(bs[i + 2]) /\ IsCont(bs[i + 3])
              /\ (b = 240 => bs[i + 1] >= 144)
              /\ (b = 244 => bs[i + 1] <= 143)
              /\ Utf8Valid(bs, i + 4)
         ELSE FALSE

\* urlencoding::decode(s).unwrap_or_default().to_string(): the decoded
\* string, or the empty string when the decoded bytes are not UTF-8.
DecodeOrDefault(s) ==
    LET bs == DecodeBinary(s, 1) IN
    IF Utf8Valid(bs, 1) THEN bs ELSE <<>>

\* HashMap::insert that keeps an existing entry (a first-wins map).
InsertIfAbsent(m, k, v) ==
    IF k \in DOMAIN m THEN m
    ELSE [x \in (DOMAIN m) \cup {k} |-> IF x = k THEN v ELSE m[x]]

\* HashMap::insert: the new value replaces an existing one.
Insert(m, k, v) ==
    [x \in (DOMAIN m) \cup {k} |-> IF x = k THEN v ELSE m[x]]

EmptyMap == [x \in {} |-> <<>>]

\* The body of the `for pair in query_str.split('&')` loop, from piece i on.
RECURSIVE InsertPairs(_, _, _)
InsertPairs(pieces, i, m) ==
    IF i > Len(pieces) THEN m
    ELSE LET kv == SplitOnce(pieces[i], Ord("=")) IN
         IF IsSome(kv)
         THEN InsertPairs(pieces, i + 1,
                  Insert(m, DecodeOrDefault(Unwrap(kv)[1]),
                            DecodeOrDefault(Unwrap(kv)[2])))
         ELSE InsertPairs(pieces, i + 1, m)

\* parse_query_params(query: Option<&str>).
parse_query_params(query) ==
    IF IsSome(query)
    THEN InsertPairs(Split(Unwrap(query), Ord("&")), 1, EmptyMap)
    ELSE EmptyMap

-----------------------------------------------------------------------------
(* The inbound request: body documents and their deserialization. *)

\* A JSON value found under a key (or at an array position) of the body.
JAbsent == [t |-> "absent", s |-> ""]
JNull == [t |-> "null", s |-> ""]
JNumber == [t |-> "number", s |-> ""]
JString(s) == [t |-> "string", s |-> s]

\* The content of a body: zero bytes, bytes that are no JSON document (text
\* or not even UTF-8), a JSON object with the keys it has, or a JSON array.
Doc(shape, phone, message, sender_id, extra, elems) ==
    [shape |-> shape, phone |-> phone, message |-> message,
     sender_id |-> sender_id, extra |-> extra, elems |-> elems]

EmptyDoc == Doc("empty", JAbsent, JAbsent, JAbsent, FALSE, <<>>)
GarbageDoc == Doc("garbage", JAbsent, JAbsent, JAbsent, FALSE, <<>>)
NonUtf8Doc == Doc("nonutf8", JAbsent, JAbsent, JAbsent, FALSE, <<>>)
ObjectDoc(phone, message, sender_id, extra) ==
    Doc("object", phone, message, sender_id, extra, <<>>)
ArrayDoc(elems) == Doc("array", JAbsent, JAbsent, JAbsent, FALSE, elems)

CallerPhone == "254700000000"
CallerMessage == "hi"
CallerSender == "X"

ObjectDocs ==
    { ObjectDoc(p, m, s, x) :
        p \in {JAbsent, JNull, JNumber, JString(CallerPhone)},
        m \in {JAbsent, JNull, JNumber, JString(CallerMessage)},
        s \in {JAbsent, JNumber, JString(CallerSender)},
        x \in BOOLEAN }

ArrayDocs ==
    { ArrayDoc(e) : e \in
        { <<>>,
          <<JString(CallerPhone), JString(CallerMessage)>>,
          <<JString(CallerPhone), JString(CallerMessage), JString(CallerSender)>>,
          <<JNull, JNull, JNull>>,
          <<JString(CallerPhone), JNumber, JNull>>,
          <<JNull, JNull, JNull, JNull>> } }

Docs == {EmptyDoc, GarbageDoc, NonUtf8Doc} \cup ObjectDocs \cup ArrayDocs

\* vercel_runtime::Body: Empty, Binary(Vec<u8>) or Text(String); a String is
\* always UTF-8.
Bodies ==
    {[kind |-> "Empty", doc |-> EmptyDoc]}
    \cup {[kind |-> "Binary", doc |-> d] : d \in Docs}
    \cup {[kind |-> "Text", doc |-> d] : d \in Docs \ {NonUtf8Doc}}

\* Vec::is_empty on the body bytes.
IsEmptyBytes(doc) == doc.shape = "empty"

\* Deserialization of one Option<String> field: Ok(None) for a missing key
\* or null, Ok(Some(s)) for a string, an error for any other JSON type.
FieldOk(jv) == jv.t \in {"absent", "null", "string"}
FieldValue(jv) == IF jv.t = "string" THEN Some(jv.s) ELSE None

RequestData(phone, message, sender_id) ==
    [phone |-> phone, message |-> message, sender_id |-> sender_id]

\* A deserializer that accepts any bytes and fills in an all-absent
\* RequestData when they are no JSON document.
from_slice_lenient(doc) ==
    IF doc.shape = "object" /\ FieldOk(doc.phone) /\ FieldOk(doc.message)
       /\ FieldOk(doc.sender_id)
    THEN Some(RequestData(FieldValue(doc.phone), FieldValue(doc.message),
                          FieldValue(doc.sender_id)))
    ELSE IF doc.shape = "array" /\ Len(doc.elems) = 3
            /\ \A i \in 1..3 : FieldOk(doc.elems[i])
    THEN Some(RequestData(FieldValue(doc.elems[1]), FieldValue(doc.elems[2]),
                          FieldValue(doc.elems[3])))
    ELSE Some(RequestData(None, None, None))

\* serde_json::from_slice::<RequestData>: Some(data) for Ok(data), None for
\* Err.  The derived Deserialize reads a JSON object (unknown keys ignored)
\* or a JSON array of exactly the three fields in declaration order.
from_slice(doc) ==
    IF doc.shape = "object"
    THEN IF FieldOk(doc.phone) /\ FieldOk(doc.message) /\ FieldOk(doc.sender_id)
         THEN Some(RequestData(FieldValue(doc.phone), FieldValue(doc.message),
                               FieldValue(doc.sender_id)))
         ELSE None
    ELSE IF doc.shape = "array"
    THEN IF Len(doc.elems) = 3 /\ \A i \in 1..3 : FieldOk(doc.elems[i])
         THEN Some(RequestData(FieldValue(doc.elems[1]),
                               FieldValue(doc.elems[2]),
                               FieldValue(doc.elems[3])))
         ELSE None
    ELSE None

\* let request_data: Option<RequestData> = if !body_bytes.is_empty() {...}
interpret_body(body_bytes) ==
    IF ~IsEmptyBytes(body_bytes) THEN from_slice(body_bytes) ELSE None

-----------------------------------------------------------------------------
(* The SMS provider and the response. *)

DefaultPhone == "254717135176"
DefaultMessage == "Scheduled message from Locci Scheduler"
DefaultSender == "UjumbeSMS"

GreetingText == "Hello from Locci Scheduler - Data received!"
SuccessText == "SMS sent successfully"
FailureText == "Failed to send SMS"

StatusOK == 200

\* What send_single_message can return: a provider payload or an error.
Outcomes ==
    { [ok |-> TRUE, val |-> "provider-response"],
      [ok |-> FALSE, val |-> "provider-error-1"],
      [ok |-> FALSE, val |-> "provider-error-2"] }

\* serde_json Values that `data` can hold.
JsonNull == [t |-> "null", v |-> ""]
JsonPayload(v) == [t |-> "payload", v |-> v]
JsonError(e) == [t |-> "error", v |-> e]

\* One call of send_sms: `via` names the call site ("default" or "custom").
SmsCall(via, phone, message, sender_id) ==
    [via |-> via, phone |-> phone, message |-> message, sender_id |-> sender_id]

\* A match on send_sms's result that drops the error.
SendResultDataDropError(o) ==
    IF o.ok THEN Some(JsonPayload(o.val)) ELSE None

\* The value both `match send_sms(...).await` arms put in `data`:
\* Some(response) or Some(json!({"error": e.to_string()})).
SendResultData(o) ==
    IF o.ok THEN Some(JsonPayload(o.val)) ELSE Some(JsonError(o.val))

TraceIds == 1..NumTraceIds

-----------------------------------------------------------------------------
(* Requests and the locals of one invocation of handler. *)

Methods == {"GET", "POST"}
Paths == {"/api/handler"}

\* Query strings (req.uri().query()) the handler is run on.
HandlerQueries ==
    { None,
      Some(Bytes(<<>>)),
      Some(Bytes(<<"a">>)),
      Some(Bytes(<<"a", "=", "b">>)),
      Some(Bytes(<<"=">>)),
      Some(Bytes(<<"a", "=", "b", "&", "a", "=", "c">>)) }

Request(method, path, query, body) ==
    [method |-> method, path |-> path, query |-> query, body |-> body]

Requests ==
    { Request(m, p, q, b) :
        m \in Methods, p \in Paths, q \in HandlerQueries, b \in Bodies }

\* The result of handler: Err(e) or Ok(response).
Err(e) == [err |-> e, response |-> None]
Ok(resp) == [err |-> "", response |-> Some(resp)]

IdleTask ==
    [pc |-> "idle",
     trace_id |-> None,          \* let trace_id
     trace_gens |-> 0,           \* calls of Uuid::new_v4 so far
     path |-> "", method |-> "",
     query_params |-> None,      \* Some(map) once parse_query_params returned
     body_bytes |-> None,        \* Some(bytes) once the body was read
     request_data |-> None,      \* let request_data: Option<RequestData>
     response_message |-> "",
     sms_response_data |-> None,
     final_sms_data |-> None,
     sends |-> <<>>,             \* calls of send_single_message, in order
     outcomes |-> <<>>,          \* what each call returned, in order
     result |-> None]            \* Some(Err(..)) or Some(Ok(..)) once returned

Slots == DOMAIN task

Set(r, t) == task' = [task EXCEPT ![r] = t]

-----------------------------------------------------------------------------
(* main *)

\* main: tracing is initialised and run(api::handler) starts serving; main
\* reads no environment variable.
MainRun ==
    /\ ~serving
    /\ serving' = TRUE
    /\ UNCHANGED <<env, inbox, task, query_in, params_out>>

-----------------------------------------------------------------------------
(* handler, one action per step between its early returns and await points *)

\* The runtime invokes handler(req) with the slot's request.
Invoke(r) ==
    /\ serving
    /\ task[r].pc = "idle"
    /\ Set(r, [task[r] EXCEPT !.pc = "trace"])
    /\ UNCHANGED <<env, serving, inbox, query_in, params_out>>

\* let trace_id = uuid::Uuid::new_v4().to_string();
GenTrace(r) ==
    /\ task[r].pc = "trace"
    /\ \E id \in TraceIds :
          Set(r, [task[r] EXCEPT !.pc = "api_key",
                                 !.trace_id = Some(id),
                                 !.trace_gens = @ + 1])
    /\ UNCHANGED <<env, serving, inbox, query_in, params_out>>

\* A handler that takes the provider secrets for granted.
AfterApiKeyUnchecked(e) == "email"

\* match std::env::var("UJUMBESMS_API_KEY"): where the handler goes next.
AfterApiKey(e) == IF e.api_key THEN "email" ELSE "failed"

\* match std::env::var("UJUMBESMS_EMAIL").
AfterEmail(e) == IF e.email THEN "client" ELSE "failed"

\* match UjumbeSmsClient::new(sms_config).
AfterClient(e) == IF e.client_ok THEN "request_info" ELSE "failed"

LoadApiKey(r) ==
    /\ task[r].pc = "api_key"
    /\ LET next == AfterApiKey(env) IN
       IF next = "failed"
       THEN Set(r, [task[r] EXCEPT !.pc = "done",
                        !.result = Some(Err("UJUMBESMS_API_KEY not present"))])
       ELSE Set(r, [task[r] EXCEPT !.pc = next])
    /\ UNCHANGED <<env, serving, inbox, query_in, params_out>>

LoadEmail(r) ==
    /\ task[r].pc = "email"
    /\ LET next == AfterEmail(env) IN
       IF next = "failed"
       THEN Set(r, [task[r] EXCEPT !.pc = "done",
                        !.result = Some(Err("UJUMBESMS_EMAIL not present"))])
       ELSE Set(r, [task[r] EXCEPT !.pc = next])
    /\ UNCHANGED <<env, serving, inbox, query_in, params_out>>

InitClient(r) ==
    /\ task[r].pc = "client"
    /\ LET next == AfterClient(env) IN
       IF next = "failed"
       THEN Set(r, [task[r] EXCEPT !.pc = "done",
                        !.result = Some(Err("SMS client initialization failed"))])
       ELSE Set(r, [task[r] EXCEPT !.pc = next])
    /\ UNCHANGED <<env, serving, inbox, query_in, params_out>>

\* let path, method, query_params
GetRequestInfo(r) ==
    /\ task[r].pc = "request_info"
    /\ Set(r, [task[r] EXCEPT
                  !.pc = "read_body",
                  !.path = inbox[r].path,
                  !.method = inbox[r].method,
                  !.query_params = Some(parse_query_params(inbox[r].query))])
    /\ UNCHANGED <<env, serving, inbox, query_in, params_out>>

\* let body_bytes = match req.into_body() {...}; let request_data = ...
ReadBody(r) ==
    /\ task[r].pc = "read_body"
    /\ LET body_bytes == IF inbox[r].body.kind = "Empty" THEN EmptyDoc
                         ELSE inbox[r].body.doc IN
       Set(r, [task[r] EXCEPT
                  !.pc = "classify",
                  !.body_bytes = Some(body_bytes),
                  !.request_data = interpret_body(body_bytes)])
    /\ UNCHANGED <<env, serving, inbox, query_in, params_out>>

\* A test that looks at the query map only.
HasDataQueryOnly(request_data, query_params) == DOMAIN query_params /= {}

\* A test that looks at the body data only.
HasDataBodyOnly(request_data, query_params) == IsSome(request_data)

\* if request_data.is_some() || !query_params.is_empty()
HasData(request_data, query_params) ==
    IsSome(request_data) \/ DOMAIN query_params /= {}

\* The greeting arm, or the call of send_sms with the default values, which
\* suspends at .await.
Classify(r) ==
    /\ task[r].pc = "classify"
    /\ IF HasData(task[r].request_data, Unwrap(task[r].query_params))
       THEN Set(r, [task[r] EXCEPT !.pc = "custom",
                                   !.response_message = GreetingText,
                                   !.sms_response_data = None])
       ELSE Set(r, [task[r] EXCEPT
                       !.pc = "default_await",
                       !.sends = Append(@, SmsCall("default", DefaultPhone,
                                                   DefaultMessage, DefaultSender))])
    /\ UNCHANGED <<env, serving, inbox, query_in, params_out>>

\* A default arm that reports success whatever the provider returned.
DefaultMessageAlwaysSuccess(o) == SuccessText

\* The message of the two arms of the default send's match.
DefaultMessageFor(o) == IF o.ok THEN SuccessText ELSE FailureText

\* send_sms(..default..).await returns Ok(response) or Err(e).
DefaultSmsReturn(r) ==
    /\ task[r].pc = "default_await"
    /\ \E o \in Outcomes :
          Set(r, [task[r] EXCEPT !.pc = "custom",
                                 !.outcomes = Append(@, o),
                                 !.response_message = DefaultMessageFor(o),
                                 !.sms_response_data = SendResultData(o)])
    /\ UNCHANGED <<env, serving, inbox, query_in, params_out>>

\* if let Some(data) = &request_data {
\*     if let (Some(phone), Some(msg)) = (&data.phone, &data.message)
CustomEligible(request_data) ==
    /\ IsSome(request_data)
    /\ IsSome(Unwrap(request_data).phone)
    /\ IsSome(Unwrap(request_data).message)

\* A custom send that ignores the caller's sender id.
SenderOfAlwaysDefault(data) == DefaultSender

\* data.sender_id.as_deref().unwrap_or("UjumbeSMS")
SenderOf(data) ==
    IF IsSome(data.sender_id) THEN Unwrap(data.sender_id) ELSE DefaultSender

\* The custom send's call of send_sms, or final_sms_data = sms_response_data.
CustomCheck(r) ==
    /\ task[r].pc = "custom"
    /\ IF CustomEligible(task[r].request_data)
       THEN LET data == Unwrap(task[r].request_data) IN
            Set(r, [task[r] EXCEPT
                       !.pc = "custom_await",
                       !.sends = Append(@, SmsCall("custom", Unwrap(data.phone),
                                                   Unwrap(data.message),
                                                   SenderOf(data)))])
       ELSE Set(r, [task[r] EXCEPT !.pc = "respond",
                                   !.final_sms_data = task[r].sms_response_data])
    /\ UNCHANGED <<env, serving, inbox, query_in, params_out>>

\* send_sms(..custom..).await returns Ok(response) or Err(e).
CustomSmsReturn(r) ==
    /\ task[r].pc = "custom_await"
    /\ \E o \in Outcomes :
          Set(r, [task[r] EXCEPT !.pc = "respond",
                                 !.outcomes = Append(@, o),
                                 !.final_sms_data = SendResultData(o)])
    /\ UNCHANGED <<env, serving, inbox, query_in, params_out>>

\* serde_json's rendering of Option<Value>: null for None.
JsonOfOption(o) == IF IsSome(o) THEN Unwrap(o) ELSE JsonNull

\* A handler that answers 500 when `data` holds an error payload.
ResponseStatusByData(data) ==
    IF IsSome(data) /\ Unwrap(data).t = "error" THEN 500 ELSE StatusOK

\* .status(StatusCode::OK)
ResponseStatus(data) == StatusOK

\* A response whose header carries a trace id generated anew.
TraceHeaderFresh(trace_id) == (trace_id % NumTraceIds) + 1

\* .header("X-Trace-Id", &trace_id)
TraceHeader(trace_id) == trace_id

\* has_body_data hardwired to the body being non-empty.
HasBodyDataNonEmpty(t) == ~IsEmptyBytes(Unwrap(t.body_bytes))

\* has_body_data: request_data.is_some()
HasBodyData(t) == IsSome(t.request_data)

\* ApiResponse { message, data, request_info, trace_id } as serialized, and
\* the Response built around it.  Serializing these types cannot fail.
BuildResponse(t) ==
    [status |-> ResponseStatus(t.final_sms_data),
     headers |->
        [content_type |-> "application/json",
         access_control_allow_origin |-> "*",
         access_control_allow_methods |-> "GET, POST, PUT, DELETE, OPTIONS",
         access_control_allow_headers |-> "Content-Type, Authorization",
         x_trace_id |-> TraceHeader(Unwrap(t.trace_id))],
     body |->
        [message |-> t.response_message,
         data |-> JsonOfOption(t.final_sms_data),
         request_info |->
            [has_body_data |-> HasBodyData(t),
             query_params |-> Unwrap(t.query_params),
             path |-> t.path,
             method |-> t.method],
         trace_id |-> Unwrap(t.trace_id)]]

Respond(r) ==
    /\ task[r].pc = "respond"
    /\ Set(r, [task[r] EXCEPT !.pc = "done",
                              !.result = Some(Ok(BuildResponse(task[r])))])
    /\ UNCHANGED <<env, serving, inbox, query_in, params_out>>

\* The environment of the process: whether UJUMBESMS_API_KEY and
\* UJUMBESMS_EMAIL are set, and whether UjumbeSmsClient::new accepts the
\* configuration built from them.  Nothing in the program changes it.
Envs == [api_key : BOOLEAN, email : BOOLEAN, client_ok : BOOLEAN]

\* One invocation of handler on any request, in any environment.
Init ==
    /\ env \in Envs
    /\ serving = FALSE
    /\ inbox \in [{1} -> Requests]
    /\ task = [r \in {1} |-> IdleTask]
    /\ query_in = None
    /\ params_out = None

Next ==
    \/ MainRun
    \/ \E r \in Slots : Invoke(r)
    \/ \E r \in Slots : GenTrace(r)
    \/ \E r \in Slots : LoadApiKey(r)
    \/ \E r \in Slots : LoadEmail(r)
    \/ \E r \in Slots : InitClient(r)
    \/ \E r \in Slots : GetRequestInfo(r)
    \/ \E r \in Slots : ReadBody(r)
    \/ \E r \in Slots : Classify(r)
    \/ \E r \in Slots : DefaultSmsReturn(r)
    \/ \E r \in Slots : CustomCheck(r)
    \/ \E r \in Slots : CustomSmsReturn(r)
    \/ \E r \in Slots : Respond(r)

Spec == Init /\ [][Next]_vars

-----------------------------------------------------------------------------
(* Two concurrent invocations on requests that differ at most in the body. *)

PairBodies ==
    { [kind |-> "Empty", doc |-> EmptyDoc],
      [kind |-> "Text", doc |-> EmptyDoc],
      [kind |-> "Binary", doc |-> EmptyDoc],
      [kind |-> "Text", doc |-> GarbageDoc],
      [kind |-> "Binary", doc |-> NonUtf8Doc],
      [kind |-> "Text",
       doc |-> ObjectDoc(JNumber, JString(CallerMessage), JAbsent, FALSE)],
      [kind |-> "Binary",
       doc |-> ArrayDoc(<<JString(CallerPhone), JString(CallerMessage)>>)],
      [kind |-> "Text", doc |-> ObjectDoc(JAbsent, JAbsent, JAbsent, FALSE)],
      [kind |-> "Text",
       doc |-> ObjectDoc(JString(CallerPhone), JString(CallerMessage),
                         JString(CallerSender), FALSE)] }

PairQueries == { None, Some(Bytes(<<"a", "=", "b">>)) }

InitPair ==
    /\ env \in Envs
    /\ serving = FALSE
    /\ \E q \in PairQueries, b1 \in PairBodies, b2 \in PairBodies :
          inbox = [r \in {1, 2} |->
                      Request("POST", "/api/handler", q,
                              IF r = 1 THEN b1 ELSE b2)]
    /\ task = [r \in {1, 2} |-> IdleTask]
    /\ query_in = None
    /\ params_out = None

SpecPair == InitPair /\ [][Next]_vars

-----------------------------------------------------------------------------
(* parse_query_params called directly on every short query string. *)

QueryAlphabet == {"a", "=", "&", "%", "4", "1", "F"}

ShortStrings ==
    UNION { [1..k -> {Ord(c) : c \in QueryAlphabet}] : k \in 0..MaxQueryLen }

LongQueries ==
    { Bytes(<<"a", "=", "b", "&", "a", "=", "c">>),
      Bytes(<<"a", "=", "b", "&", "c", "=", "b", "&", "a", "=", "c">>),
      Bytes(<<"%", "C", "3", "%", "A", "9", "=", "%", "C", "3">>),
      Bytes(<<"%", "4", "1", "=", "1", "&", "A", "=", "%", "F", "F">>),
      Bytes(<<"a", "=", "b", "=", "c", "&", "b">>),
      Bytes(<<"a", "+", "b", "=", "%", "4", "&", "%", "=", "%", "%", "4", "1">>) }

QueryInputs == {None} \cup {Some(q) : q \in ShortStrings \cup LongQueries}

InitQuery ==
    /\ env = [api_key |-> TRUE, email |-> TRUE, client_ok |-> TRUE]
    /\ serving = FALSE
    /\ inbox = <<>>
    /\ task = <<>>
    /\ query_in \in QueryInputs
    /\ params_out = None

CallParse ==
    /\ params_out = None
    /\ params_out' = Some(parse_query_params(query_in))
    /\ UNCHANGED <<env, serving, inbox, task, query_in>>

NextQuery == CallParse

SpecQuery == InitQuery /\ [][NextQuery]_vars

-----------------------------------------------------------------------------
(* Vocabulary of the properties, stated on the request as it arrived. *)

Done(r) == task[r].pc = "done"
Responded(r) == Done(r) /\ IsSome(Unwrap(task[r].result).response)
Failed(r) == Done(r) /\ IsNone(Unwrap(task[r].result).response)
Response(r) == Unwrap(Unwrap(task[r].result).response)

ConfigOk == env.api_key /\ env.email /\ env.client_ok
SecretMissing == ~env.api_key \/ ~env.email

\* The body is a JSON document of the RequestData shape: an object none of
\* whose three keys holds a non-string, non-null value, or an array of three
\* such values.
WellFormedDoc(doc) ==
    \/ /\ doc.shape = "object"
       /\ \A jv \in {doc.phone, doc.message, doc.sender_id} : jv.t /= "number"
    \/ /\ doc.shape = "array"
       /\ Len(doc.elems) = 3
       /\ \A i \in 1..3 : doc.elems[i].t /= "number"

ZeroLength(body) == body.kind = "Empty" \/ body.doc.shape = "empty"
BodyPresent(body) == ~ZeroLength(body) /\ WellFormedDoc(body.doc)
Unparseable(body) == ~ZeroLength(body) /\ ~WellFormedDoc(body.doc)

\* The JSON value the body gives for a field of RequestData.
BodyField(body, n) ==
    IF body.doc.shape = "array" THEN body.doc.elems[n]
    ELSE IF n = 1 THEN body.doc.phone
    ELSE IF n = 2 THEN body.doc.message
    ELSE body.doc.sender_id

\* The query string has a piece with '=' (it then has an '=' at all).
QueryHasPair(query) ==
    IsSome(query) /\ \E i \in 1..Len(Unwrap(query)) : Unwrap(query)[i] = Ord("=")

NoData(req) == ~BodyPresent(req.body) /\ ~QueryHasPair(req.query)

CustomWanted(req) ==
    /\ BodyPresent(req.body)
    /\ BodyField(req.body, 1).t = "string"
    /\ BodyField(req.body, 2).t = "string"

DefaultCalls(r) == {i \in 1..Len(task[r].sends) : task[r].sends[i].via = "default"}
CustomCalls(r) == {i \in 1..Len(task[r].sends) : task[r].sends[i].via = "custom"}

OutcomeJson(o) == IF o.ok THEN JsonPayload(o.val) ELSE JsonError(o.val)

EnvelopeFields == {"message", "data", "request_info", "trace_id"}

-----------------------------------------------------------------------------
(* C1 *)

\* C1: once a request has dispatched an SMS (default or custom), the handler
\* never returns an error: it ends in a response with status 200 carrying the
\* whole envelope, and the last send's outcome, success or failure, is in
\* `data` (a failure as the error payload).
C1_ProviderFailureInBand ==
    \A r \in Slots :
        LET t == task[r] IN
        Len(t.sends) > 0 =>
            /\ IsSome(t.result) => Responded(r)
            /\ Done(r) =>
                  /\ Response(r).status = StatusOK
                  /\ DOMAIN Response(r).body = EnvelopeFields
                  /\ Response(r).body.data = OutcomeJson(t.outcomes[Len(t.outcomes)])

C1_Witness ==
    \E r \in Slots :
        /\ Responded(r)
        /\ Len(task[r].sends) > 0
        /\ ~task[r].outcomes[Len(task[r].outcomes)].ok
        /\ Response(r).status = StatusOK
        /\ Response(r).body.data.t = "error"

-----------------------------------------------------------------------------
(* C2 *)

DefaultCallsFixed(r) ==
    /\ Cardinality(DefaultCalls(r)) <= 1
    /\ \A i \in DefaultCalls(r) :
          task[r].sends[i] =
              SmsCall("default", DefaultPhone, DefaultMessage, DefaultSender)

-----------------------------------------------------------------------------
(* C3 *)

ExpectedMessage(r) ==
    IF ~NoData(inbox[r]) THEN GreetingText
    ELSE IF task[r].outcomes[1].ok THEN SuccessText
    ELSE FailureText

\* C3: from the end of the Path A/B choice on, through the custom send and in
\* the response, `message` is the greeting exactly when body data is present
\* or the query map is non-empty, and otherwise the success or failure string
\* of the default send's outcome; the custom send leaves it alone.
C3_MessageByPathAB ==
    \A r \in Slots :
        /\ task[r].pc \in {"custom", "custom_await", "respond"}
              => task[r].response_message = ExpectedMessage(r)
        /\ Responded(r) => Response(r).body.message = ExpectedMessage(r)

C3_Witness ==
    \E r \in Slots :
        /\ Responded(r)
        /\ CustomCalls(r) /= {}
        /\ ~task[r].outcomes[1].ok
        /\ Response(r).body.message = GreetingText
        /\ Response(r).body.data.t = "error"

-----------------------------------------------------------------------------
(* C4 *)

CustomCallsAsSupplied(r) ==
    /\ Cardinality(CustomCalls(r)) <= 1
    /\ \A i \in CustomCalls(r) :
          LET body == inbox[r].body IN
          task[r].sends[i] =
              SmsCall("custom", BodyField(body, 1).s, BodyField(body, 2).s,
                      IF BodyField(body, 3).t = "string"
                      THEN BodyField(body, 3).s ELSE DefaultSender)

FinalDataAsClaimed(r) ==
    Responded(r) =>
        Response(r).body.data =
            IF CustomCalls(r) /= {}
            THEN OutcomeJson(task[r].outcomes[Len(task[r].outcomes)])
            ELSE IF DefaultCalls(r) /= {}
            THEN OutcomeJson(task[r].outcomes[1])
            ELSE JsonNull

-----------------------------------------------------------------------------
(* C5 *)

\* C5 as stated, on the requests that meet Path C's conditions: the custom
\* send of a request can follow a default send of the same request, so a
\* finished request that dispatched the custom SMS with an empty query map
\* made two sends, the default one first, and dropped the first result.
C5_Original ==
    \A r \in Slots :
        Done(r) /\ CustomCalls(r) /= {} /\ ~QueryHasPair(inbox[r].query) =>
            /\ Len(task[r].sends) = 2
            /\ task[r].sends[1].via = "default"
            /\ task[r].sends[2].via = "custom"

\* C5 amended: no request meets Path C's conditions after Path B ran (Path C
\* needs body data, and body data selects Path A): a request never dispatches
\* both SMS, makes at most one send, and has at most one send in flight.
C5_NeverBothSends ==
    \A r \in Slots :
        /\ ~(DefaultCalls(r) /= {} /\ CustomCalls(r) /= {})
        /\ Len(task[r].sends) <= 1
        /\ Len(task[r].sends) - Len(task[r].outcomes) \in {0, 1}
        /\ task[r].pc \in {"default_await", "custom_await"}
              <=> Len(task[r].sends) - Len(task[r].outcomes) = 1

C5_Witness ==
    \E r \in Slots :
        /\ Responded(r)
        /\ CustomWanted(inbox[r])
        /\ ~QueryHasPair(inbox[r].query)
        /\ Len(task[r].sends) = 1
        /\ task[r].sends[1].via = "custom"
        /\ Response(r).body.data = OutcomeJson(task[r].outcomes[1])

-----------------------------------------------------------------------------
(* C6 *)

-----------------------------------------------------------------------------
(* C7 *)

TraceOnceBeforeParsing(r) ==
    /\ task[r].trace_gens <= 1
    /\ task[r].trace_gens = 1 <=> IsSome(task[r].trace_id)
    /\ IsSome(task[r].query_params) \/ IsSome(task[r].body_bytes)
          => task[r].trace_gens = 1

TraceInBodyAndHeader(r) ==
    /\ Response(r).body.trace_id = Unwrap(task[r].trace_id)
    /\ Response(r).headers.x_trace_id = Unwrap(task[r].trace_id)

TraceNeverChanges ==
    \A r \in Slots :
        IsSome(task[r].trace_id) => task'[r].trace_id = task[r].trace_id

-----------------------------------------------------------------------------
(* C8: checked on pairs of invocations, SpecPair *)

\* The two invocations met the same provider outcomes, send for send.
SameOutcomes(a, b) ==
    \A k \in 1..Len(task[a].outcomes) :
        k <= Len(task[b].outcomes) => task[a].outcomes[k] = task[b].outcomes[k]

\* C8: of two finished requests that differ only in that one has a non-empty
\* body that fails deserialization and the other an absent or zero-length
\* body, and that met the same provider outcomes, both made the same SMS
\* dispatches and returned the same status, message, data and request_info;
\* and the malformed body never produces an error on its own.
C8_MalformedBodyAsAbsent ==
    \A a, b \in Slots :
        /\ Done(a) /\ Done(b)
           /\ Unparseable(inbox[a].body) /\ ZeroLength(inbox[b].body)
           /\ inbox[a].query = inbox[b].query
           /\ inbox[a].method = inbox[b].method
           /\ inbox[a].path = inbox[b].path
           /\ SameOutcomes(a, b)
           => /\ task[a].sends = task[b].sends
              /\ Responded(a) <=> Responded(b)
              /\ Responded(a) =>
                    /\ Response(a).status = Response(b).status
                    /\ Response(a).body.message = Response(b).body.message
                    /\ Response(a).body.data = Response(b).body.data
                    /\ Response(a).body.request_info = Response(b).body.request_info
        /\ Done(a) /\ Unparseable(inbox[a].body) /\ ConfigOk
           => Responded(a) /\ Response(a).status = StatusOK

C8_Witness ==
    \E a, b \in Slots :
        /\ Responded(a) /\ Responded(b)
        /\ inbox[a].body.doc = GarbageDoc
        /\ inbox[b].body.kind = "Empty"
        /\ IsNone(inbox[a].query)
        /\ task[a].sends = task[b].sends /\ Len(task[a].sends) = 1
        /\ task[a].outcomes = task[b].outcomes
        /\ Response(a).body.message = FailureText

-----------------------------------------------------------------------------
(* C9 *)

\* C9: in every response, request_info.has_body_data is true exactly when the
\* body was non-empty and deserialized as RequestData ({} included), whatever
\* the query and whatever the sends returned.
C9_HasBodyData ==
    \A r \in Slots :
        Responded(r) =>
            (Response(r).body.request_info.has_body_data
                <=> BodyPresent(inbox[r].body))

C9_Witness ==
    \E r \in Slots :
        /\ Responded(r)
        /\ inbox[r].body.doc = ObjectDoc(JAbsent, JAbsent, JAbsent, FALSE)
        /\ QueryHasPair(inbox[r].query)
        /\ Response(r).body.request_info.has_body_data

-----------------------------------------------------------------------------
(* C10: checked on direct calls of parse_query_params, SpecQuery *)

HasEq(piece) == \E j \in 1..Len(piece) : piece[j] = Ord("=")
FirstEq(piece) ==
    CHOOSE j \in 1..Len(piece) :
        piece[j] = Ord("=") /\ \A k \in 1..(j - 1) : piece[k] /= Ord("=")
KeyOf(piece) == DecodeOrDefault(SubSeq(piece, 1, FirstEq(piece) - 1))
ValueOf(piece) == DecodeOrDefault(SubSeq(piece, FirstEq(piece) + 1, Len(piece)))

RECURSIVE Join(_, _)
Join(pieces, sep) ==
    IF Len(pieces) = 1 THEN pieces[1]
    ELSE pieces[1] \o <<sep>> \o Join(Tail(pieces), sep)

\* The entries the claim describes for a query string q.
ClaimedEntries(q, m) ==
    LET pieces == Split(q, Ord("&"))
        pairs == {i \in 1..Len(pieces) : HasEq(pieces[i])}
        LastWith(k) ==
            CHOOSE i \in pairs :
                /\ KeyOf(pieces[i]) = k
                /\ \A j \in pairs : KeyOf(pieces[j]) = k => j <= i
    IN  /\ Join(pieces, Ord("&")) = q
        /\ \A i \in 1..Len(pieces) :
              \A j \in 1..Len(pieces[i]) : pieces[i][j] /= Ord("&")
        /\ DOMAIN m = {KeyOf(pieces[i]) : i \in pairs}
        /\ \A k \in DOMAIN m : m[k] = ValueOf(pieces[LastWith(k)])
        /\ DOMAIN m = {} <=> pairs = {}

\* C10: parse_query_params returns a mapping for every optional query string:
\* empty for an absent query; otherwise one entry per piece (between '&')
\* that contains '=', split at its first '=', key and value decoded (empty
\* when undecodable), the last piece winning among equal keys; so the mapping
\* is empty exactly when no piece contains '='.
C10_QueryMap ==
    IsSome(params_out) =>
        LET m == Unwrap(params_out) IN
        IF IsNone(query_in) THEN DOMAIN m = {}
        ELSE /\ ClaimedEntries(Unwrap(query_in), m)
             /\ DOMAIN m = {} <=> ~QueryHasPair(query_in)

C10_Witness ==
    /\ IsSome(params_out)
    /\ query_in = Some(Bytes(<<"a", "=", "b", "=", "c", "&", "b">>))
    /\ Unwrap(params_out) = [k \in {Bytes(<<"a">>)} |-> Bytes(<<"b", "=", "c">>)]

=============================================================================
